---- MODULE Spec2Model ----
(***************************************************************************)
(* Model of the MATLAB easyblock (easybuild/easyblocks/m/matlab.py):       *)
(* configure_step composes the silent-install configuration file and       *)
(* install_step runs the vendor installer once per installation key.       *)
(*                                                                         *)
(* Representation of text.  A string is a sequence of atoms (TLA+ strings  *)
(* that stand for a run of characters), a file is a sequence of lines, a   *)
(* line is a string.  Matching a fixed pattern is matching a run of atoms. *)
(***************************************************************************)
EXTENDS Integers, Sequences, FiniteSets, TLC

\* ------------------------------------------------------------------ bounds

\* longest template (in lines) that SpecConfigure enumerates
MaxLines == 5
\* longest list of installation keys
MaxKeys == 2
\* number of times install_step is run on the same easyblock object
MaxRuns == 2

\* ------------------------------------------------------------- generic text

\* Python's None, for a value that is otherwise a string
None == <<"<None>">>

SeqsUpTo(S, n) == UNION {[1..k -> S] : k \in 0..n}

\* s[from..] as a sequence
Drop(s, n) == SubSeq(s, n + 1, Len(s))

\* does the run of atoms p occur in s at position k
OccursAt(p, s, k) ==
    /\ k >= 1
    /\ k + Len(p) - 1 <= Len(s)
    /\ \A j \in 1..Len(p) : s[k + j - 1] = p[j]

\* Python's  p in s  for strings
Mentions(p, s) == \E k \in 1..Len(s) : OccursAt(p, s, k)

\* Python's ' '.join(parts), every part a string
RECURSIVE JoinSpace(_)
JoinSpace(parts) ==
    IF parts = <<>> THEN <<>>
    ELSE IF Len(parts) = 1 THEN parts[1]
    ELSE parts[1] \o <<" ">> \o JoinSpace(Tail(parts))

\* Python's str.split(','): the runs of atoms between "," atoms
RECURSIVE SplitComma(_, _)
SplitComma(s, cur) ==
    IF s = <<>> THEN <<cur>>
    ELSE IF Head(s) = "," THEN <<cur>> \o SplitComma(Tail(s), <<>>)
    ELSE SplitComma(Tail(s), cur \o <<Head(s)>>)

\* ------------------------------------------------------------- LooseVersion

Digits == <<"0", "1", "2", "3", "4", "5", "6", "7", "8", "9">>
Letters == <<"a", "b", "c", "d", "e", "f", "g", "h", "i", "j", "k", "l", "m",
             "n", "o", "p", "q", "r", "s", "t", "u", "v", "w", "x", "y", "z">>

IndexIn(c, table) == CHOOSE n \in 1..Len(table) : table[n] = c
IsDigit(c) == \E n \in 1..Len(Digits) : Digits[n] = c
IsLetter(c) == \E n \in 1..Len(Letters) : Letters[n] = c
DigitVal(c) == IndexIn(c, Digits) - 1

\* length of the longest prefix of s made of digits (is_digit) or of letters
RECURSIVE RunLen(_, _)
RunLen(s, is_digit) ==
    IF s = <<>> THEN 0
    ELSE IF (is_digit /\ IsDigit(Head(s))) \/ (~is_digit /\ IsLetter(Head(s)))
    THEN 1 + RunLen(Tail(s), is_digit)
    ELSE 0

\* int() of a run of digits
RECURSIVE IntOf(_, _)
IntOf(s, acc) == IF s = <<>> THEN acc ELSE IntOf(Tail(s), 10 * acc + DigitVal(Head(s)))

\* distutils.version.LooseVersion.parse: the runs of digits (as integers) and of
\* lowercase letters of the version string, dots dropped.  Version strings of
\* MATLAB are a year and a release letter: only digits, lowercase letters and
\* dots are modelled.
RECURSIVE ParseVersion(_)
ParseVersion(s) ==
    IF s = <<>> THEN <<>>
    ELSE IF IsDigit(Head(s))
    THEN LET n == RunLen(s, TRUE)
         IN  <<[int |-> TRUE, n |-> IntOf(SubSeq(s, 1, n), 0), s |-> <<>>]>>
                 \o ParseVersion(Drop(s, n))
    ELSE IF IsLetter(Head(s))
    THEN LET n == RunLen(s, FALSE)
         IN  <<[int |-> FALSE, n |-> 0, s |-> SubSeq(s, 1, n)]>>
                 \o ParseVersion(Drop(s, n))
    ELSE ParseVersion(Tail(s))

\* comparison of two strings of lowercase letters, as -1, 0, 1
RECURSIVE CmpLetters(_, _)
CmpLetters(a, b) ==
    IF a = <<>> /\ b = <<>> THEN 0
    ELSE IF a = <<>> THEN -1
    ELSE IF b = <<>> THEN 1
    ELSE IF IndexIn(Head(a), Letters) < IndexIn(Head(b), Letters) THEN -1
    ELSE IF IndexIn(Head(a), Letters) > IndexIn(Head(b), Letters) THEN 1
    ELSE CmpLetters(Tail(a), Tail(b))

\* comparison of two components.  An integer against a string is ordered as
\* Python 2 orders it (the integer first); the versions of Versions never
\* compare an integer with a string.
CmpComponent(x, y) ==
    IF x.int /\ y.int THEN (IF x.n < y.n THEN -1 ELSE IF x.n > y.n THEN 1 ELSE 0)
    ELSE IF x.int THEN -1
    ELSE IF y.int THEN 1
    ELSE CmpLetters(x.s, y.s)

\* comparison of two component lists, as Python compares lists
RECURSIVE CmpList(_, _)
CmpList(a, b) ==
    IF a = <<>> /\ b = <<>> THEN 0
    ELSE IF a = <<>> THEN -1
    ELSE IF b = <<>> THEN 1
    ELSE IF CmpComponent(Head(a), Head(b)) # 0 THEN CmpComponent(Head(a), Head(b))
    ELSE CmpList(Tail(a), Tail(b))

\* the comparison of the two version strings as plain strings
RECURSIVE CmpChars(_, _)
CmpChars(a, b) ==
    LET code(c) == IF IsDigit(c) THEN DigitVal(c) ELSE 10 + IndexIn(c, Letters)
    IN  IF a = <<>> /\ b = <<>> THEN 0
        ELSE IF a = <<>> THEN -1
        ELSE IF b = <<>> THEN 1
        ELSE IF code(Head(a)) < code(Head(b)) THEN -1
        ELSE IF code(Head(a)) > code(Head(b)) THEN 1
        ELSE CmpChars(Tail(a), Tail(b))

StringGE(v, w) == CmpChars(v, w) >= 0

\* LooseVersion(v) >= LooseVersion(w)
LooseVersionGE(v, w) == CmpList(ParseVersion(v), ParseVersion(w)) >= 0

V2016b == <<"2", "0", "1", "6", "b">>
V2017a == <<"2", "0", "1", "7", "a">>
V2020a == <<"2", "0", "2", "0", "a">>
V2020b == <<"2", "0", "2", "0", "b">>

\* ------------------------------------------------------------------ paths

builddir == "/build"
start_dir == "/build/MATLAB"
installdir == "/software/MATLAB"
TemplatePath == "/build/MATLAB/installer_input.txt"
configfile == "/build/my_installer_input.txt"
LicFilePath == "/build/matlab.lic"
src == "/build/MATLAB/install"

\* --------------------------------------------------------- the environment

\* os.getenv(name, default) on the process environment env
Getenv(env, name, default) == IF name \in DOMAIN env THEN env[name] ELSE default

\* os.environ.pop(name), guarded by  name in os.environ
PopEnv(env, name) == [n \in (DOMAIN env) \ {name} |-> env[n]]

\* ------------------------------------------------------------ configure_step

DefaultLicenseServer == <<"license.example.com">>
DefaultLicensePort == <<"00000">>

\* lictxt: the two lines joined by '\n'
LicenseText(licserv, licport) ==
    << <<"SERVER ">> \o licserv \o <<" 000000000000 ">> \o licport,
       <<"USE_SERVER">> >>

\* the license server and port that configure_step resolves
ResolveServer(c, env) ==
    IF c.license_server = None
    THEN Getenv(env, "EB_MATLAB_LICENSE_SERVER", DefaultLicenseServer)
    ELSE c.license_server

\* the port taken from the environment even when one is configured
ResolvePortEnvFirst(c, env) ==
    Getenv(env, "EB_MATLAB_LICENSE_SERVER_PORT",
           IF c.license_server_port = None THEN DefaultLicensePort
           ELSE c.license_server_port)

ResolvePort(c, env) ==
    IF c.license_server_port = None
    THEN Getenv(env, "EB_MATLAB_LICENSE_SERVER_PORT", DefaultLicensePort)
    ELSE c.license_server_port

\* the commented form of a field, "# <name>="
Marker(name) == <<"# ", name, "=">>

\* the substitution without the anchor: the marker matches anywhere in a line,
\* and the line is replaced from there on
RegSubUnanchored(name, repl, text) ==
    [n \in 1..Len(text) |->
        IF Mentions(Marker(name), text[n])
        THEN LET k == CHOOSE k \in 1..Len(text[n]) :
                         /\ OccursAt(Marker(name), text[n], k)
                         /\ \A j \in 1..(k - 1) : ~OccursAt(Marker(name), text[n], j)
             IN  SubSeq(text[n], 1, k - 1) \o repl
        ELSE text[n]]

\* re.compile(r"^# <name>=.*", re.M).sub(repl, text): a line that starts with
\* the marker is replaced whole, every other line is kept
RegSub(name, repl, text) ==
    [n \in 1..Len(text) |->
        IF OccursAt(Marker(name), text[n], 1) THEN repl ELSE text[n]]

\* the four substitutions of configure_step, in the order of the code
Substitute(text, lic) ==
    LET c1 == RegSub("destinationFolder", <<"destinationFolder", "=", installdir>>, text)
        c2 == RegSub("agreeToLicense", <<"agreeToLicense", "=", "Yes">>, c1)
        c3 == RegSub("mode", <<"mode", "=", "silent">>, c2)
    IN  RegSub("licensePath", <<"licensePath", "=">> \o lic, c3)

\* ------------------------------------------------------------------ errors

NoError == [type |-> "none", fmt |-> "", args |-> <<>>]

\* the error without the reason of the IOError
ConfigErrorNoReason(path, reason) ==
    [type |-> "EasyBuildError",
     fmt  |-> "Failed to create installation config file %s",
     args |-> <<path>>]

\* raise EasyBuildError("Failed to create installation config file %s: %s", ...)
ConfigError(path, reason) ==
    [type |-> "EasyBuildError",
     fmt  |-> "Failed to create installation config file %s: %s",
     args |-> <<path, reason>>]

\* the reasons an IOError can carry
IOReasons == {"ENOENT", "EACCES"}

\* --------------------------------------------------------------- the state

VARIABLES
    py,            \* major version of the Python interpreter, 2 or 3
    bufsize,       \* lines the buffer of an open file object holds
    version,       \* self.version, a sequence of characters
    cfg,           \* self.cfg
    environ,       \* os.environ
    fs,            \* the file system: path -> text of the file
    dirs,          \* the directories tempfile.mkdtemp created
    pc,            \* position in configure_step / install_step
    licfile,       \* configure_step: licfile
    config,        \* configure_step: config
    err,           \* the exception the step ended in
    keys,          \* install_step: keys
    i,             \* install_step: index of the loop over keys (0-based)
    tmpdir,        \* install_step: tmpdir
    tmp_configfile,\* install_step: tmp_configfile
    fd,            \* install_step: the open NamedTemporaryFile
    cmd,           \* install_step: cmd
    out,           \* install_step: out
    executable,    \* paths that adjust_permissions made executable
    cwd,           \* the working directory
    ntemp,         \* temporary names handed out so far by tempfile
    runs,          \* calls of install_step so far
    log,           \* the installer invocations of the current install_step
    hist           \* what the run was given and what happened (for the properties)

vars == <<py, bufsize, version, cfg, environ, fs, dirs, pc, licfile, config, err, keys,
          i, tmpdir, tmp_configfile, fd, cmd, out, executable, cwd, ntemp, runs,
          log, hist>>

installVars == <<dirs, keys, i, tmpdir, tmp_configfile, fd, cmd, out, executable, cwd,
                 ntemp, runs, log>>

NoFile == [open |-> FALSE, name |-> "", buf |-> <<>>]
Unbound == "<unbound>"

\* the state after __init__, for a build described by the arguments
InitWith(templates, configs, versions, envs, pys, bufs) ==
    /\ py \in pys
    /\ bufsize \in bufs
    /\ version \in versions
    /\ cfg \in configs
    /\ environ \in envs
    /\ \E t \in templates : fs = [p \in {TemplatePath} |-> t]
    /\ dirs = {}
    /\ pc = "configure"
    /\ licfile = None
    /\ config = <<>>
    /\ err = NoError
    /\ keys = <<>>
    /\ i = 0
    /\ tmpdir = <<>>
    /\ tmp_configfile = Unbound
    /\ fd = NoFile
    /\ cmd = <<>>
    /\ out = <<>>
    /\ executable = {}
    /\ cwd = "/"
    /\ ntemp = 0
    /\ runs = 0
    /\ log = <<>>
    /\ hist = [preinstallopts |-> cfg.preinstallopts, environ |-> environ,
               fault |-> "none", reason |-> "", base |-> <<>>, dirs |-> {}]

\* lines 72-87: resolve the license, writing a license file when none is given
ResolveLicense ==
    /\ pc = "configure"
    /\ IF cfg.license_file = None
       THEN /\ licfile' = <<LicFilePath>>
            /\ fs' = [p \in DOMAIN fs \cup {LicFilePath} |->
                        IF p = LicFilePath
                        THEN LicenseText(ResolveServer(cfg, environ),
                                         ResolvePort(cfg, environ))
                        ELSE fs[p]]
       ELSE /\ licfile' = cfg.license_file
            /\ fs' = fs
    /\ pc' = "cfg_copy"
    /\ UNCHANGED <<py, bufsize, version, cfg, environ, config, err, hist>>
    /\ UNCHANGED installVars

\* line 105-106: the handler of the try block of configure_step
RaiseConfigError(op, reason) ==
    /\ err' = ConfigError(configfile, reason)
    /\ pc' = "cfg_failed"
    /\ hist' = [hist EXCEPT !.fault = op, !.reason = reason]

\* line 90: shutil.copyfile(template, self.configfile)
CopyTemplate ==
    /\ pc = "cfg_copy"
    /\ fs' = [p \in DOMAIN fs \cup {configfile} |->
                IF p = configfile THEN fs[TemplatePath] ELSE fs[p]]
    /\ pc' = "cfg_read"
    /\ UNCHANGED <<py, bufsize, version, cfg, environ, licfile, config, err, hist>>
    /\ UNCHANGED installVars

\* line 90, the copy raising IOError
CopyTemplateFails ==
    /\ pc = "cfg_copy"
    /\ \E reason \in IOReasons : RaiseConfigError("copy", reason)
    /\ UNCHANGED <<py, bufsize, version, cfg, environ, fs, licfile, config>>
    /\ UNCHANGED installVars

\* line 91: config = read_file(self.configfile)
ReadConfig ==
    /\ pc = "cfg_read"
    /\ config' = fs[configfile]
    /\ pc' = "cfg_write"
    /\ UNCHANGED <<py, bufsize, version, cfg, environ, fs, licfile, err, hist>>
    /\ UNCHANGED installVars

\* line 91, the read raising IOError
ReadConfigFails ==
    /\ pc = "cfg_read"
    /\ \E reason \in IOReasons : RaiseConfigError("read", reason)
    /\ UNCHANGED <<py, bufsize, version, cfg, environ, fs, licfile, config>>
    /\ UNCHANGED installVars

\* lines 93-103: the substitutions and write_file(self.configfile, config)
WriteConfig ==
    /\ pc = "cfg_write"
    /\ config' = Substitute(config, licfile)
    /\ fs' = [fs EXCEPT ![configfile] = config']
    /\ hist' = [hist EXCEPT !.base = config']
    /\ pc' = "install"
    /\ UNCHANGED <<py, bufsize, version, cfg, environ, licfile, err>>
    /\ UNCHANGED installVars

\* lines 93-103, the write raising IOError (the substitutions are done)
WriteConfigFails ==
    /\ pc = "cfg_write"
    /\ config' = Substitute(config, licfile)
    /\ \E reason \in IOReasons : RaiseConfigError("write", reason)
    /\ UNCHANGED <<py, bufsize, version, cfg, environ, fs, licfile>>
    /\ UNCHANGED installVars

configure_step ==
    \/ ResolveLicense
    \/ CopyTemplate
    \/ CopyTemplateFails
    \/ ReadConfig
    \/ ReadConfigFails
    \/ WriteConfig
    \/ WriteConfigFails

\* --------------------------------------------------------------- install_step

DefaultKey == <<"00000-00000-00000-00000-00000-00000-00000-00000-00000-00000">>

\* lines 137-141: the list of keys, from the configuration or the environment
KeysOf(c, env) ==
    LET k0 == IF c.key.kind = "none"
              THEN [kind |-> "str", val |-> Getenv(env, "EB_MATLAB_KEY", DefaultKey)]
              ELSE c.key
    IN  IF k0.kind = "str" THEN SplitComma(k0.val, <<>>) ELSE k0.val

\* the export prepended whatever the preinstall options hold
InjectAlways(pre, java_options) ==
    <<"export ", "_JAVA_OPTIONS", "=\"">> \o java_options \o <<"\" && ">> \o pre

\* lines 128-130: the export of _JAVA_OPTIONS goes before the preinstall
\* options unless they mention it
InjectJavaOptions(pre, java_options) ==
    IF ~Mentions(<<"_JAVA_OPTIONS">>, pre)
    THEN <<"export ", "_JAVA_OPTIONS", "=\"">> \o java_options \o <<"\" && ">> \o pre
    ELSE pre

\* lines 125-126: $DISPLAY is removed from the environment
SanitizeEnv(env) == IF "DISPLAY" \in DOMAIN env THEN PopEnv(env, "DISPLAY") ELSE env

\* lines 116-121: the paths made executable
ExecutablePaths(v) ==
    {src} \cup (IF LooseVersionGE(v, V2016b)
                THEN {"/build/MATLAB/bin/glnxa64",
                      "/build/MATLAB/sys/java/jre/glnxa64/jre/bin"}
                ELSE {})

\* a name tempfile hands out: none is handed out twice
TempName(n) == "/tmp/tmp" \o ToString(n)

\* line 155: str.replace of every occurrence of the commented key field
RECURSIVE ReplaceAll(_, _, _)
ReplaceAll(line, p, r) ==
    IF line = <<>> THEN <<>>
    ELSE IF OccursAt(p, line, 1) THEN r \o ReplaceAll(Drop(line, Len(p)), p, r)
    ELSE <<Head(line)>> \o ReplaceAll(Tail(line), p, r)

KeyReplace(text, key) ==
    [n \in 1..Len(text) |->
        ReplaceAll(text[n], Marker("fileInstallationKey"),
                   <<"fileInstallationKey", "=">> \o key)]

\* line 156: fd.write(text) on a buffered file object.  What does not fill a
\* whole buffer stays in the buffer until the file is flushed or closed.
Flushed(text, bs) == SubSeq(text, 1, (Len(text) \div bs) * bs)
Buffered(text, bs) == Drop(text, (Len(text) \div bs) * bs)

\* closing a file that was created with delete=False: flushed and kept
CloseKeepsFile(fsys, f) == [fsys EXCEPT ![f.name] = fsys[f.name] \o f.buf]

\* leaving  with tempfile.NamedTemporaryFile() as fd : the file is closed,
\* which deletes it
CloseTemporaryFile(fsys, f) == [p \in (DOMAIN fsys) \ {f.name} |-> fsys[p]]

\* lines 160-166: the command of the binary installer method
ModernCmd(pre, tmpfile, post) ==
    JoinSpace(<< pre, <<src>>, <<"-inputFile">>, <<tmpfile>>, post >>)

\* the script installer's command with the key flag before the input file
LegacyCmdMisordered(pre, tmp, key, post) ==
    JoinSpace(<< pre, <<src>>, <<"-v">>, tmp, <<"-fileInstallationKey">>, key,
                 <<"-inputFile">>, <<configfile>>, post >>)

\* lines 175-185: the command of the script installer method
LegacyCmd(pre, tmp, key, post) ==
    JoinSpace(<< pre, <<src>>, <<"-v">>, tmp, <<"-inputFile">>, <<configfile>>,
                 <<"-fileInstallationKey">>, key, post >>)

\* lines 190-192
Pattern == <<"Error: You have entered an invalid ", "File Installation Key">>

\* the letters of an atom in lower case (atoms without a case variant are
\* their own lower case)
CaseTable ==
    [a \in {"Error: You have entered an invalid ",
            "ERROR: YOU HAVE ENTERED AN INVALID ",
            "error: you have entered an invalid "} |->
        "error: you have entered an invalid "]
    @@
    [a \in {"File Installation Key", "FILE INSTALLATION KEY",
            "file installation key"} |-> "file installation key"]

Lower(a) == IF a \in DOMAIN CaseTable THEN CaseTable[a] ELSE a

\* the search without re.I
SearchExact(pattern, text) == Mentions(pattern, text)

\* lines 195-196: re.compile(pattern, re.I).search(text)
SearchIgnoreCase(pattern, text) ==
    \E k \in 1..Len(text) :
        /\ k + Len(pattern) - 1 <= Len(text)
        /\ \A j \in 1..Len(pattern) : Lower(text[k + j - 1]) = Lower(pattern[j])

TempConfigError(path, reason) ==
    [type |-> "EasyBuildError",
     fmt  |-> "Failed to create temporary config file %s: %s",
     args |-> <<path, reason>>]

PatternError(pattern, c, o) ==
    [type |-> "EasyBuildError",
     fmt  |-> "Found error pattern '%s' in output of installation command '%s': %s",
     args |-> <<pattern, c, o>>]

\* what one run of the installer can print and return (run_cmd's result)
OutClean == <<"Installation complete">>
OutFailedOther == <<"Error: You have entered an invalid ", "License File">>
OutInvalidKey == <<"(Jan 01) ", "Error: You have entered an invalid ",
                   "File Installation Key", ".">>
OutInvalidKeyCase == <<"ERROR: YOU HAVE ENTERED AN INVALID ", "file installation key">>

RunResults ==
    { [out |-> OutClean, ec |-> 0],
      [out |-> OutFailedOther, ec |-> 1],
      [out |-> OutInvalidKey, ec |-> 1],
      [out |-> OutInvalidKeyCase, ec |-> 0] }

\* one entry of log: the installer as it was started
Invocation(key, c, r) ==
    [key |-> key, cmd |-> c, environ |-> environ, fs |-> fs, ec |-> r.ec, out |-> r.out]

\* lines 113-141: everything before the loop over the keys
Prepare ==
    /\ pc \in {"install", "done"}
    /\ runs < MaxRuns
    /\ runs' = runs + 1
    /\ executable' = executable \cup ExecutablePaths(version)
    /\ environ' = SanitizeEnv(environ)
    /\ cfg' = [cfg EXCEPT !.preinstallopts =
                              InjectJavaOptions(cfg.preinstallopts, cfg.java_options)]
    /\ cwd' = IF LooseVersionGE(version, V2016b) THEN builddir ELSE cwd
    /\ ntemp' = ntemp + 1
    /\ dirs' = dirs \cup {TempName(ntemp')}
    /\ tmpdir' = <<"-tmpdir ", TempName(ntemp')>>
    /\ keys' = KeysOf(cfg, environ')
    /\ i' = 0
    /\ tmp_configfile' = Unbound
    /\ cmd' = <<>>
    /\ out' = <<>>
    /\ log' = <<>>
    /\ pc' = "loop"
    /\ hist' = [hist EXCEPT !.dirs = dirs]
    /\ UNCHANGED <<py, bufsize, version, fs, licfile, config, err, fd>>

\* lines 151-152: the temporary file of this key is created
OpenTemp ==
    /\ pc = "loop"
    /\ i < Len(keys)
    /\ LooseVersionGE(version, V2020a)
    /\ ntemp' = ntemp + 1
    /\ fd' = [open |-> TRUE, name |-> TempName(ntemp'), buf |-> <<>>]
    /\ fs' = [p \in DOMAIN fs \cup {TempName(ntemp')} |->
                IF p = TempName(ntemp') THEN <<>> ELSE fs[p]]
    /\ tmp_configfile' = TempName(ntemp')
    /\ pc' = "tmpwrite"
    /\ UNCHANGED <<py, bufsize, version, cfg, environ, dirs, licfile, config, err,
                   keys, i, tmpdir, cmd, out, executable, cwd, runs, log, hist>>

\* line 151 raising IOError: the handler of line 171 reads tmp_configfile,
\* which no statement of this call has bound in the first pass of the loop
OpenTempFails ==
    /\ pc = "loop"
    /\ i < Len(keys)
    /\ LooseVersionGE(version, V2020a)
    /\ \E reason \in IOReasons :
          err' = IF tmp_configfile = Unbound
                 THEN [type |-> "UnboundLocalError", fmt |-> "", args |-> <<>>]
                 ELSE TempConfigError(tmp_configfile, reason)
    /\ pc' = "failed"
    /\ UNCHANGED <<py, bufsize, version, cfg, environ, fs, dirs, licfile, config,
                   keys, i, tmpdir, tmp_configfile, fd, cmd, out, executable, cwd,
                   ntemp, runs, log, hist>>

\* lines 153-156 under Python 2: the text with the key goes to the file object
WriteTemp ==
    /\ pc = "tmpwrite"
    /\ py = 2
    /\ LET tmp_config == KeyReplace(fs[configfile], keys[i + 1])
       IN  /\ fs' = [fs EXCEPT ![fd.name] = Flushed(tmp_config, bufsize)]
           /\ fd' = [fd EXCEPT !.buf = Buffered(tmp_config, bufsize)]
    /\ pc' = "run"
    /\ UNCHANGED <<py, bufsize, version, cfg, environ, dirs, licfile, config, err,
                   keys, i, tmpdir, tmp_configfile, cmd, out, executable, cwd,
                   ntemp, runs, log, hist>>

\* line 156 under Python 3: the file is opened in mode 'w+b' and write() takes
\* no str; the TypeError is no IOError and leaves install_step
WriteTempTypeError ==
    /\ pc = "tmpwrite"
    /\ py = 3
    /\ fs' = CloseTemporaryFile(fs, fd)
    /\ fd' = NoFile
    /\ err' = [type |-> "TypeError", fmt |-> "", args |-> <<>>]
    /\ pc' = "failed"
    /\ UNCHANGED <<py, bufsize, version, cfg, environ, dirs, licfile, config,
                   keys, i, tmpdir, tmp_configfile, cmd, out, executable, cwd,
                   ntemp, runs, log, hist>>

\* line 153 raising IOError: the base configuration cannot be opened
ReadBaseFails ==
    /\ pc = "tmpwrite"
    /\ fs' = CloseTemporaryFile(fs, fd)
    /\ fd' = NoFile
    /\ \E reason \in IOReasons : err' = TempConfigError(tmp_configfile, reason)
    /\ pc' = "failed"
    /\ UNCHANGED <<py, bufsize, version, cfg, environ, dirs, licfile, config,
                   keys, i, tmpdir, tmp_configfile, cmd, out, executable, cwd,
                   ntemp, runs, log, hist>>

\* lines 160-168: the installer runs on the temporary file
RunModern ==
    /\ pc = "run"
    /\ cmd' = ModernCmd(cfg.preinstallopts, tmp_configfile, cfg.installopts)
    /\ \E r \in RunResults :
          /\ out' = r.out
          /\ log' = Append(log, Invocation(keys[i + 1], cmd', r))
    /\ pc' = "close"
    /\ UNCHANGED <<py, bufsize, version, cfg, environ, fs, dirs, licfile, config,
                   err, keys, i, tmpdir, tmp_configfile, fd, executable, cwd,
                   ntemp, runs, hist>>

\* the end of the with block of line 151
CloseTemp ==
    /\ pc = "close"
    /\ fs' = CloseTemporaryFile(fs, fd)
    /\ fd' = NoFile
    /\ pc' = "inspect"
    /\ UNCHANGED <<py, bufsize, version, cfg, environ, dirs, licfile, config, err,
                   keys, i, tmpdir, tmp_configfile, cmd, out, executable, cwd,
                   ntemp, runs, log, hist>>

\* lines 174-187: the installer runs on the base configuration
RunLegacy ==
    /\ pc = "loop"
    /\ i < Len(keys)
    /\ ~LooseVersionGE(version, V2020a)
    /\ cmd' = LegacyCmd(cfg.preinstallopts, tmpdir, keys[i + 1], cfg.installopts)
    /\ \E r \in RunResults :
          /\ out' = r.out
          /\ log' = Append(log, Invocation(keys[i + 1], cmd', r))
    /\ pc' = "inspect"
    /\ UNCHANGED <<py, bufsize, version, cfg, environ, fs, dirs, licfile, config,
                   err, keys, i, tmpdir, tmp_configfile, fd, executable, cwd,
                   ntemp, runs, hist>>

\* lines 189-198: the output is searched for the known signs of trouble
Inspect ==
    /\ pc = "inspect"
    /\ IF SearchIgnoreCase(Pattern, out)
       THEN /\ err' = PatternError(Pattern, cmd, out)
            /\ pc' = "failed"
            /\ i' = i
       ELSE /\ err' = err
            /\ pc' = "loop"
            /\ i' = i + 1
    /\ UNCHANGED <<py, bufsize, version, cfg, environ, fs, dirs, licfile, config,
                   keys, tmpdir, tmp_configfile, fd, cmd, out, executable, cwd,
                   ntemp, runs, log, hist>>

\* the loop of line 144 has no key left: install_step returns
Finish ==
    /\ pc = "loop"
    /\ i >= Len(keys)
    /\ pc' = "done"
    /\ UNCHANGED <<py, bufsize, version, cfg, environ, fs, dirs, licfile, config,
                   err, keys, i, tmpdir, tmp_configfile, fd, cmd, out, executable,
                   cwd, ntemp, runs, log, hist>>

install_step ==
    \/ Prepare
    \/ OpenTemp
    \/ OpenTempFails
    \/ WriteTemp
    \/ WriteTempTypeError
    \/ ReadBaseFails
    \/ RunModern
    \/ CloseTemp
    \/ RunLegacy
    \/ Inspect
    \/ Finish

\* ------------------------------------------------------------ specifications

Key(a) == <<a>>
KeyNames == {"AAAA", "BBBB"}

\* the values of the option  key : unset, one string (keys separated by
\* commas) or a list of strings
KeyOptions ==
    {[kind |-> "none", val |-> <<>>],
     [kind |-> "str", val |-> <<"AAAA">>],
     [kind |-> "str", val |-> <<"BBBB", ",", "AAAA">>]}
    \cup {[kind |-> "list", val |-> l] :
             l \in SeqsUpTo({Key(a) : a \in KeyNames}, MaxKeys)}

PreinstallOptions ==
    { <<>>,
      <<"ulimit -s unlimited && ">>,
      <<"export ", "_JAVA_OPTIONS", "=-Xmx2g && ">> }

Environments ==
    { <<>>,
      [n \in {"DISPLAY", "EB_MATLAB_KEY"} |->
          IF n = "DISPLAY" THEN <<"localhost:10.0">> ELSE <<"CCCC">>] }

Versions ==
    { <<"9", "9", "9", "b">>, V2016b, <<"2", "0", "2", "0">>, V2020a, V2020b,
      <<"1", "0", "0", "0", "0", "a">> }

\* the interpreter and the buffer of its file objects, in lines: under Python 2
\* a buffer that the configuration fills a whole number of times (all of it is
\* written through) and one it does not fill (nothing is), and Python 3
Platforms == {<<2, 2>>, <<2, 8>>, <<3, 8>>}

\* installer_input.txt as the vendor ships it
VendorTemplate ==
    << <<"## ", "SPECIFY installation folder">>,
       Marker("destinationFolder"),
       Marker("fileInstallationKey"),
       Marker("agreeToLicense"),
       Marker("mode") \o <<"interactive">>,
       Marker("licensePath") >>

BaseConfig(key, pre) ==
    [license_file |-> None, license_server |-> None, license_server_port |-> None,
     java_options |-> <<"-Xmx256m">>, key |-> key, preinstallopts |-> pre,
     installopts |-> <<"-outputFile /build/install.log">>]

Init ==
    \E pf \in Platforms :
        InitWith({VendorTemplate},
                 {BaseConfig(k, p) : k \in KeyOptions, p \in PreinstallOptions},
                 Versions, Environments, {pf[1]}, {pf[2]})

Next == configure_step \/ install_step

Spec == Init /\ [][Next]_vars

\* the lines SpecConfigure builds templates from: the four commented fields,
\* a field that is already activated, and a line that holds a marker but not
\* at its start
TemplateLines ==
    { Marker("destinationFolder"),
      Marker("agreeToLicense") \o <<"no">>,
      Marker("mode") \o <<"interactive">>,
      Marker("licensePath"),
      <<"mode", "=", "silent">>,
      <<"#">> \o Marker("mode") }

Optional(v) == {None, v}

LicenseConfigs ==
    {[BaseConfig([kind |-> "none", val |-> <<>>], <<>>) EXCEPT
         !.license_file = f, !.license_server = h, !.license_server_port = q] :
       f \in Optional(<<"/site/licenses/network.lic">>),
       h \in Optional(<<"lic.site.org">>),
       q \in Optional(<<"27000">>)}

LicenseEnvironments ==
    { <<>>,
      [n \in {"EB_MATLAB_LICENSE_SERVER"} |-> <<"env.site.org">>],
      [n \in {"EB_MATLAB_LICENSE_SERVER_PORT"} |-> <<"1711">>],
      [n \in {"EB_MATLAB_LICENSE_SERVER", "EB_MATLAB_LICENSE_SERVER_PORT"} |->
          IF n = "EB_MATLAB_LICENSE_SERVER" THEN <<"env.site.org">> ELSE <<"1711">>] }

\* configure_step alone: every template up to MaxLines lines, with and without
\* a license file, and the vendor's template under every license setting
InitConfigure ==
    \/ InitWith(SeqsUpTo(TemplateLines, MaxLines),
                {c \in LicenseConfigs :
                    c.license_server = None /\ c.license_server_port = None},
                {V2020a}, {<<>>}, {2}, {8})
    \/ InitWith({VendorTemplate}, LicenseConfigs, {V2020a}, LicenseEnvironments,
                {2}, {8})

NextConfigure == configure_step

SpecConfigure == InitConfigure /\ [][NextConfigure]_vars

\* ------------------------------------------------------------ the properties

\* the versions of Versions at or above 2020a, by year and release letter
AtLeast2020a(v) == v \in {V2020a, V2020b, <<"1", "0", "0", "0", "0", "a">>}

\* the captured output holds the invalid-key message in some letter case
HasInvalidKeyMessage(o) ==
    \E k \in 1..(Len(o) - 1) :
        /\ o[k] \in {"Error: You have entered an invalid ",
                     "ERROR: YOU HAVE ENTERED AN INVALID ",
                     "error: you have entered an invalid "}
        /\ o[k + 1] \in {"File Installation Key", "FILE INSTALLATION KEY",
                         "file installation key"}

\* the path that follows -inputFile in a command
InputFileOf(c) == c[(CHOOSE k \in 1..Len(c) : c[k] = "-inputFile") + 2]

\* the files that are neither the template, the base configuration nor the
\* license file
TempFiles(fsys) == (DOMAIN fsys) \ {TemplatePath, configfile, LicFilePath}

Installing == pc \in {"loop", "tmpwrite", "run", "close", "inspect", "done", "failed"}

\* C1: an invocation whose output holds the invalid-key message (any letter
\* case) is the last invocation of the run, and once its output is inspected
\* install_step has ended in an EasyBuildError that carries the pattern, the
\* command string and the output.
C1_InvalidKeyAborts ==
    \A k \in 1..Len(log) :
        HasInvalidKeyMessage(log[k].out) =>
            /\ k = Len(log)
            /\ pc \in {"close", "inspect", "failed"}
            /\ pc = "failed" =>
                  /\ err.type = "EasyBuildError"
                  /\ err.args = <<Pattern, log[k].cmd, log[k].out>>

C1_Witness ==
    /\ pc = "failed"
    /\ Len(keys) = 2
    /\ Len(log) = 1
    /\ log[1].out = OutInvalidKeyCase
    /\ err.type = "EasyBuildError"

\* C2: when install_step has ended and no captured output held the
\* invalid-key message, the installer was invoked once per key in the order
\* of the key list and install_step ended in success, whatever the exit
\* statuses.  (An I/O failure while the temporary configuration is created is
\* the other fatal condition of the failure policy and is left aside here.)
C2_SuccessWithoutMatch ==
    ( /\ pc \in {"done", "failed"}
      /\ \A k \in 1..Len(log) : ~HasInvalidKeyMessage(log[k].out)
      /\ err.fmt # "Failed to create temporary config file %s: %s"
      /\ err.type # "UnboundLocalError" )
    => /\ pc = "done"
       /\ [k \in 1..Len(log) |-> log[k].key] = keys

\* C3: for a version at or above 2020a, the file the installer is given with
\* -inputFile holds, when the installer starts, a line fileInstallationKey=k
\* for the current key k and no commented key field.
C3_VariantHoldsKey ==
    \A k \in 1..Len(log) :
        AtLeast2020a(version) =>
            LET seen == log[k].fs[InputFileOf(log[k].cmd)]
            IN  /\ \E n \in 1..Len(seen) :
                      seen[n] = <<"fileInstallationKey", "=">> \o log[k].key
                /\ \A n \in 1..Len(seen) :
                      ~Mentions(Marker("fileInstallationKey"), seen[n])

\* C4: for a version below 2020a, the command of every key is the preinstall
\* options, the installer, -v, -tmpdir with a directory that mkdtemp created
\* in this call of install_step, -inputFile, the base configuration,
\* -fileInstallationKey, the key and the install options, in this order.
C4_LegacyCommand ==
    \A k \in 1..Len(log) :
        ~AtLeast2020a(version) =>
            \E d \in dirs \ hist.dirs :
                /\ log[k].cmd =
                      cfg.preinstallopts \o <<" ", src, " ", "-v", " ", "-tmpdir ", d,
                         " ", "-inputFile", " ", configfile, " ",
                         "-fileInstallationKey", " ">> \o keys[k] \o <<" ">>
                         \o cfg.installopts
                /\ d \notin DOMAIN log[k].fs
                /\ \E n \in 0..Len(cfg.preinstallopts) :
                      Drop(cfg.preinstallopts, n) = hist.preinstallopts

C4_Witness ==
    /\ pc = "done"
    /\ runs = 2
    /\ version = V2016b
    /\ Len(log) = 2
    /\ log[1].key # log[2].key

\* the command uses a per-key file and no key flag
IsModern(inv) ==
    /\ Mentions(<<"-inputFile", " ", inv.cmd[Len(inv.cmd) - 2], " ">>, inv.cmd)
    /\ inv.cmd[Len(inv.cmd) - 2] \in TempFiles(inv.fs)
    /\ ~Mentions(<<"-fileInstallationKey">>, inv.cmd)

\* the command uses the base configuration and the key flag
IsLegacy(inv) ==
    /\ Mentions(<<"-inputFile", " ", configfile, " ">>, inv.cmd)
    /\ Mentions(<<"-fileInstallationKey", " ">> \o inv.key, inv.cmd)

\* C5: versions are ordered as versions, 2016b < 2017a < 2020a < 2020b, and
\* every invocation of a run uses the binary installer method when the version
\* is at or above 2020a and the script installer method when it is below.
C5_MethodByVersion ==
    /\ ~LooseVersionGE(V2016b, V2017a)
    /\ ~LooseVersionGE(V2017a, V2020a)
    /\ ~LooseVersionGE(V2020a, V2020b)
    /\ \A k \in 1..Len(log) :
          IF AtLeast2020a(version)
          THEN IsModern(log[k]) /\ ~IsLegacy(log[k])
          ELSE IsLegacy(log[k]) /\ ~IsModern(log[k])

C5_Witness ==
    /\ version = <<"1", "0", "0", "0", "0", "a">>
    /\ Len(log) = 2
    /\ IsModern(log[1])
    /\ IsModern(log[2])

\* the fields configure_step activates
Fields == {"destinationFolder", "agreeToLicense", "mode", "licensePath"}

IsCommented(name, line) ==
    Len(line) >= 3 /\ line[1] = "# " /\ line[2] = name /\ line[3] = "="

IsActivated(name, line) == Len(line) >= 2 /\ line[1] = name /\ line[2] = "="

CountLines(text, P(_)) == Cardinality({n \in 1..Len(text) : P(text[n])})

\* the license file the base configuration has to name
ExpectedLicense ==
    IF cfg.license_file = None THEN <<LicFilePath>> ELSE cfg.license_file

RightLine(name) ==
    CASE name = "destinationFolder" -> <<"destinationFolder", "=", installdir>>
      [] name = "agreeToLicense" -> <<"agreeToLicense", "=", "Yes">>
      [] name = "mode" -> <<"mode", "=", "silent">>
      [] name = "licensePath" -> <<"licensePath", "=">> \o ExpectedLicense

\* the template has exactly one commented line for each of the four fields
OneCommentedLineEach(t) ==
    \A name \in Fields : CountLines(t, LAMBDA l : IsCommented(name, l)) = 1

IsMarkerLine(line) == \E name \in Fields : IsCommented(name, line)

\* C6 as stated: after configure_step, for a template with exactly one
\* commented line per field, the base configuration has exactly one activated
\* line per field, with the right value, no commented field line, and every
\* other line of the template unchanged at its position.
C6_AsStated ==
    (pc = "install" /\ OneCommentedLineEach(fs[TemplatePath])) =>
        LET t == fs[TemplatePath]
            base == fs[configfile]
        IN  /\ Len(base) = Len(t)
            /\ \A name \in Fields :
                  /\ CountLines(base, LAMBDA l : IsActivated(name, l)) = 1
                  /\ CountLines(base, LAMBDA l : l = RightLine(name)) = 1
                  /\ CountLines(base, LAMBDA l : IsCommented(name, l)) = 0
            /\ \A n \in 1..Len(t) : ~IsMarkerLine(t[n]) => base[n] = t[n]

\* C6, amended: after configure_step, for a template with exactly one
\* commented line per field, the commented line of each field has become the
\* activated line with the right value at the same position, the activated
\* lines of a field are this one and those the template already had, no
\* commented field line remains and every other line is unchanged at its
\* position.
C6_MarkersActivated ==
    (pc = "install" /\ OneCommentedLineEach(fs[TemplatePath])) =>
        LET t == fs[TemplatePath]
            base == fs[configfile]
        IN  /\ Len(base) = Len(t)
            /\ \A name \in Fields :
                  /\ \A n \in 1..Len(t) :
                        IsCommented(name, t[n]) => base[n] = RightLine(name)
                  /\ CountLines(base, LAMBDA l : IsActivated(name, l))
                        = 1 + CountLines(t, LAMBDA l : IsActivated(name, l))
                  /\ CountLines(base, LAMBDA l : IsCommented(name, l)) = 0
            /\ \A n \in 1..Len(t) : ~IsMarkerLine(t[n]) => base[n] = t[n]

C6_Witness ==
    /\ pc = "install"
    /\ OneCommentedLineEach(fs[TemplatePath])
    /\ Len(fs[TemplatePath]) = 5
    /\ fs[TemplatePath][2] = <<"#">> \o Marker("mode")
    /\ fs[configfile][2] = <<"#">> \o Marker("mode")
    /\ cfg.license_file # None

\* the value configured, else the value of the environment, else the placeholder
Resolved(configured, envname, placeholder) ==
    IF configured # None THEN configured
    ELSE IF envname \in DOMAIN hist.environ THEN hist.environ[envname]
    ELSE placeholder

\* C7: once the license is resolved, either a license file is configured, no
\* license file is written and licensePath names the configured file, or the
\* file matlab.lic holds "SERVER <host> 000000000000 <port>" and "USE_SERVER",
\* host and port being the configured value, else the environment's, else the
\* placeholder; with nothing configured and nothing in the environment the
\* text is SERVER license.example.com 000000000000 00000 / USE_SERVER.
C7_LicenseResolution ==
    pc # "configure" =>
        /\ licfile = ExpectedLicense
        /\ IF cfg.license_file # None
           THEN LicFilePath \notin DOMAIN fs
           ELSE /\ LicFilePath \in DOMAIN fs
                /\ fs[LicFilePath] =
                      << <<"SERVER ">>
                            \o Resolved(cfg.license_server,
                                        "EB_MATLAB_LICENSE_SERVER",
                                        <<"license.example.com">>)
                            \o <<" 000000000000 ">>
                            \o Resolved(cfg.license_server_port,
                                        "EB_MATLAB_LICENSE_SERVER_PORT",
                                        <<"00000">>),
                         <<"USE_SERVER">> >>
        /\ ( /\ cfg.license_file = None
             /\ cfg.license_server = None
             /\ cfg.license_server_port = None
             /\ DOMAIN hist.environ = {} )
           => fs[LicFilePath] =
                 << <<"SERVER ", "license.example.com", " 000000000000 ", "00000">>,
                    <<"USE_SERVER">> >>
        /\ pc = "install" =>
              \A n \in 1..Len(fs[TemplatePath]) :
                  IsCommented("licensePath", fs[TemplatePath][n]) =>
                      fs[configfile][n] = <<"licensePath", "=">> \o licfile

C7_Witness ==
    /\ pc = "install"
    /\ cfg.license_file = None
    /\ cfg.license_server = None
    /\ cfg.license_server_port # None
    /\ DOMAIN hist.environ =
          {"EB_MATLAB_LICENSE_SERVER", "EB_MATLAB_LICENSE_SERVER_PORT"}
    /\ fs[LicFilePath][1] = <<"SERVER ", "env.site.org", " 000000000000 ", "27000">>

\* C8: once the copy of the template, the read or the write of the base
\* configuration has raised an I/O failure, configure_step has ended in an
\* EasyBuildError that carries the path of the base configuration and the
\* reason of the failure, and it stays there: nothing is retried and
\* install_step never starts.
C8_ConfigureIOFailure ==
    hist.fault # "none" =>
        /\ pc = "cfg_failed"
        /\ err.type = "EasyBuildError"
        /\ err.args = <<configfile, hist.reason>>
        /\ runs = 0
        /\ log = <<>>

C8_Witness ==
    /\ hist.fault = "write"
    /\ hist.reason = "EACCES"
    /\ pc = "cfg_failed"
    /\ err.args = <<configfile, "EACCES">>

\* C9: at most one per-key temporary configuration file exists at any time;
\* it exists only between its creation and the end of the installer's run, so
\* none exists when the output is inspected, when the next key starts or when
\* install_step has ended; the invocations of a run each had a file of their
\* own; the base configuration is as configure_step wrote it.
C9_TransientVariants ==
    /\ Cardinality(TempFiles(fs)) <= 1
    /\ pc \notin {"tmpwrite", "run", "close"} => TempFiles(fs) = {} /\ ~fd.open
    /\ Installing =>
          /\ fs[configfile] = hist.base
          /\ AtLeast2020a(version) =>
                /\ \A k \in 1..Len(log) :
                      InputFileOf(log[k].cmd) \in TempFiles(log[k].fs)
                /\ \A k, l \in 1..Len(log) :
                      k # l => InputFileOf(log[k].cmd) # InputFileOf(log[l].cmd)

C9_Witness ==
    /\ pc = "failed"
    /\ AtLeast2020a(version)
    /\ Len(log) = 2
    /\ HasInvalidKeyMessage(log[2].out)
    /\ TempFiles(log[2].fs) # {}
    /\ TempFiles(fs) = {}

\* C10: at every invocation DISPLAY is not in the environment and the command
\* mentions _JAVA_OPTIONS; the preinstall options are those configured when
\* these mention _JAVA_OPTIONS, and otherwise, from the first call of
\* install_step on, those configured behind one export of _JAVA_OPTIONS.
C10_EnvironmentAndJavaOptions ==
    /\ \A k \in 1..Len(log) :
          /\ "DISPLAY" \notin DOMAIN log[k].environ
          /\ Mentions(<<"_JAVA_OPTIONS">>, log[k].cmd)
    /\ cfg.preinstallopts =
          IF runs = 0 \/ Mentions(<<"_JAVA_OPTIONS">>, hist.preinstallopts)
          THEN hist.preinstallopts
          ELSE <<"export ", "_JAVA_OPTIONS", "=\"">> \o cfg.java_options
                  \o <<"\" && ">> \o hist.preinstallopts

C10_Witness ==
    /\ runs = 2
    /\ Len(log) = 1
    /\ "DISPLAY" \in DOMAIN hist.environ
    /\ ~Mentions(<<"_JAVA_OPTIONS">>, hist.preinstallopts)
    /\ Mentions(<<"_JAVA_OPTIONS">>, log[1].cmd)

====
